---- MODULE Spec2Model ----
(***************************************************************************)
(* Model of the Telegram download bot in src/main.py: the admission gate   *)
(* (rate_limited over the optional Redis client), the two message handlers *)
(* (cmd_help, handle_url) as coroutines of one asyncio event loop, the     *)
(* size gate and the workspace teardown.                                   *)
(*                                                                         *)
(* A coroutine runs uninterrupted from one `await` to the next, so every   *)
(* action below is one such segment of a handler.  A plain (non-awaited)   *)
(* call that takes time keeps the event loop: the variable `loop` names    *)
(* the task that holds it, 0 when the loop is free to dispatch.            *)
(***************************************************************************)
EXTENDS Integers, Sequences, FiniteSets, TLC

\* ---------------------------------------------------------------- bounds
NumTasks == 2      \* inbound events handled concurrently
NumUsers == 2      \* distinct message.from_user.id values
MaxLimitMB == 5    \* the size gate is tried under limits 0..MaxLimitMB
TickStep == 5      \* seconds that pass in one step of the admission gate's clock
MaxTailLen == 3     \* free characters after the padding of a sanitize input
MaxEntries == 3     \* most entries of a workspace listed by pick_file_from_dir
MaxStemLen == 2     \* longest file-name stem given to the delivery choice

\* ------------------------------------------------------- program constants
COOLDOWN == 30     \* rcli.setex(key, 30, "1")
MAX_FILE_MB == 200 \* int(os.getenv("MAX_FILE_MB", "200")): the default
STEP == 1024       \* human_size: step = 1024.0
TRUNC == 80        \* sanitize: text[:80]

MB == 1024 * 1024

Tasks == 1..NumTasks
Users == 1..NumUsers
Names == 1..NumTasks           \* directory names mkdtemp can draw
LimitsMB == 0..MaxLimitMB

\* Sizes the size gate is tried on: around every multiple of a MB
Sizes == {s \in {k * MB + d : k \in 0..(MaxLimitMB + 1), d \in {-1, 0, 1}} : s >= 0}

\* Artifact sizes the engine leaves behind in the pipeline: at the configured
\* limit and one byte over it
ArtifactSizes == {MAX_FILE_MB * MB, MAX_FILE_MB * MB + 1}

\* ------------------------------------------------------------- pure helpers
RECURSIVE Pow(_, _)
Pow(b, e) == IF e = 0 THEN 1 ELSE b * Pow(b, e - 1)

\* f"{x:.2f}" of the exact quotient n / d, in hundredths (round half to even)
Round2(n, d) ==
    LET q == (n \div d) * 100 + ((n % d) * 100) \div d
        r == ((n % d) * 100) % d
    IN  IF 2 * r > d THEN q + 1
        ELSE IF 2 * r = d /\ q % 2 = 1 THEN q + 1
        ELSE q

Units == <<"B", "KB", "MB", "GB">>

RECURSIVE human_size_from(_, _)
human_size_from(num_bytes, i) ==
    \* size after i divisions is num_bytes / STEP^i; the test is
    \* size < step or u == units[-1]
    IF i = Len(Units) - 1 \/ num_bytes < Pow(STEP, i + 1)
    THEN <<Round2(num_bytes, Pow(STEP, i)), Units[i + 1]>>
    ELSE human_size_from(num_bytes, i + 1)

human_size(num_bytes) == human_size_from(num_bytes, 0)

\* size_mb = st_size / (1024 * 1024); size_mb > MAX_FILE_MB  (true division:
\* the quotient exceeds the limit iff its integer part does, or equals it
\* with a remainder)
SizeGateFloorDiv(st_size, limit_mb) ==
    IF st_size \div MB > limit_mb THEN "Reject" ELSE "Pass"

SizeGate(st_size, limit_mb) ==
    LET whole == st_size \div MB
        frac  == st_size % MB
    IN  IF whole > limit_mb \/ (whole = limit_mb /\ frac > 0)
        THEN "Reject" ELSE "Pass"

\* ------------------------------------------------------------ status texts
Text(kind) == [kind |-> kind, hsize |-> <<0, "">>, limit |-> 0]
NoStatus       == Text("none")        \* no status message was posted
InProgress     == Text("progress")    \* line 128
SendFailedText == Text("send_failed") \* line 163
DlFailedText   == Text("dl_failed")   \* line 167
ApologyText    == Text("apology")     \* line 173
Deleted        == Text("deleted")     \* status.delete() took effect
TooLargeText(st_size, limit_mb) ==    \* lines 144-145
    [kind |-> "too_large", hsize |-> human_size(st_size), limit |-> limit_mb]

TerminalKinds == {"too_large", "send_failed", "dl_failed", "apology"}

\* ------------------------------------------------------------------- state
VARIABLES
    rcli,         \* "None" | "Client": the module-level Redis client (lines 41-49)
    arg, ret,     \* argument and result of a helper function tried on its own
    store,        \* Redis: remaining time-to-live of each busy key, 0 = absent
    loop,         \* task holding the event loop inside a blocking call, 0 = free
    pc,           \* per task: the await (or blocking call) it is stopped at
    user_id,      \* per task: argument of its rate_limited call in progress, else 0
    status,       \* per task: what the status message shows
    tmpdir,       \* per task: name returned by mkdtemp while its handler runs,
                  \* else 0
    dirs,         \* names of the directories that exist under DOWNLOAD_DIR
    gate,         \* per task: what rate_limited did: none | Admitted | Busy | Raised
    verdict,      \* per task: what the size comparison of line 142 gave
    stsize,       \* per task: file_path.stat().st_size of the picked file
    extracts,     \* per task: calls of ydl.extract_info
    engine,       \* per task: how that call and pick_file_from_dir ended
    sends,        \* per task: calls of reply_video / reply_audio / reply_document
    delivered,    \* per task: the file-send returned normally
    notices,      \* per task: throttling notices delivered
    shown,        \* per task: terminal texts the status message has displayed
    callfail,     \* per task: a transport call or mkdtemp of the task raised
    escaped,      \* per task: the exception that left the handler: none |
                  \* store | transport | oserror
    elapsed       \* per user: seconds since rate_limited last admitted it,
                  \* COOLDOWN standing for that long or longer (or never)

vars == <<rcli, arg, ret, store, loop, pc, user_id, status, tmpdir, dirs, gate,
          verdict, stsize, extracts, engine, sends, delivered, notices, shown,
          callfail, escaped, elapsed>>

config  == <<rcli, arg, ret>>
history == <<verdict, stsize, extracts, engine, sends, delivered, notices, shown>>

Init ==
    /\ rcli \in {"None", "Client"}
    /\ arg = <<>>
    /\ ret = <<>>
    /\ store = [k \in Users |-> 0]
    /\ loop = 0
    /\ pc = [j \in Tasks |-> "idle"]
    /\ user_id = [j \in Tasks |-> 0]
    /\ status = [j \in Tasks |-> NoStatus]
    /\ tmpdir = [j \in Tasks |-> 0]
    /\ dirs = {}
    /\ gate = [j \in Tasks |-> "none"]
    /\ verdict = [j \in Tasks |-> "none"]
    /\ stsize = [j \in Tasks |-> 0]
    /\ extracts = [j \in Tasks |-> 0]
    /\ engine = [j \in Tasks |-> "none"]
    /\ sends = [j \in Tasks |-> 0]
    /\ delivered = [j \in Tasks |-> FALSE]
    /\ notices = [j \in Tasks |-> 0]
    /\ shown = [j \in Tasks |-> {}]
    /\ callfail = [j \in Tasks |-> FALSE]
    /\ escaped = [j \in Tasks |-> "none"]
    /\ elapsed = [u \in Users |-> COOLDOWN]

\* --------------------------------------------------------- admission store
\* key = f"ytdlbot:busy:{user_id}"
BusyKeyShared(uid) == 1
BusyKey(uid) == uid

\* rcli.get(key): the value while the key lives, None once it has expired
redis_get(key) == IF store[key] > 0 THEN "1" ELSE "None"

\* rcli.setex(key, 30, "1")
redis_setex(key) == [store EXCEPT ![key] = COOLDOWN]

\* Between rcli.get and rcli.setex there is no await: the task keeps the loop
KeepsLoopReleased(j) == 0
KeepsLoop(j) == j

\* Redis expiry and the wall clock: d seconds pass
Expire(d) == [k \in Users |-> IF store[k] > d THEN store[k] - d ELSE 0]
Age(d) == [u \in Users |->
             IF elapsed[u] + d > COOLDOWN THEN COOLDOWN ELSE elapsed[u] + d]

Tick(d) ==
    /\ \E k \in Users : store[k] > 0
    /\ store' = Expire(d)
    /\ elapsed' = Age(d)
    /\ UNCHANGED <<config, loop, pc, user_id, status, tmpdir, dirs, gate,
                   history, callfail, escaped>>

\* ------------------------------------------------------ transport outcomes
\* message.reply / reply_video / reply_audio / reply_document / status.delete
CallResults == {"ok", "error"}
\* status.edit_text: also aiogram's MessageNotModified (content unchanged)
EditResults == {"ok", "not_modified", "error"}

\* ydl.extract_info followed by pick_file_from_dir: a regular non-partial
\* file is in tmpdir, yt_dlp.utils.DownloadError was raised, another exception
\* was raised, or the call returned and left no such file
EngineResults == {"file", "download_error", "other_error", "no_file"}

Edited(j, text) == [status EXCEPT ![j] = text]
Shown(j, text) == [shown EXCEPT ![j] = @ \cup {text.kind}]
Failed(j, r) == [callfail EXCEPT ![j] = @ \/ (r # "ok")]

\* Tasks are numbered in the order their events arrive: the dispatcher starts
\* task j for the j-th inbound message
NextToArrive(j) == pc[j] = "idle" /\ \A i \in Tasks : i < j => pc[i] # "idle"

\* -------------------------------------------------------------- cmd_help
\* lines 104-115: /start or /help arrives, the handler awaits message.reply
cmd_help(j) ==
    /\ loop = 0
    /\ NextToArrive(j)
    /\ pc' = [pc EXCEPT ![j] = "await_help"]
    /\ UNCHANGED <<config, store, loop, user_id, status, tmpdir, dirs, gate, history,
                   callfail, escaped, elapsed>>

\* line 115 resumes: the reply was sent or raised
cmd_help_reply(j, r) ==
    /\ loop = 0
    /\ pc[j] = "await_help"
    /\ pc' = [pc EXCEPT ![j] = "done"]
    /\ callfail' = Failed(j, r)
    /\ escaped' = [escaped EXCEPT ![j] = IF r = "ok" THEN "none" ELSE "transport"]
    /\ UNCHANGED <<config, store, loop, user_id, status, tmpdir, dirs, gate,
                   history, elapsed>>

\* ------------------------------------------------------------ rate_limited
\* lines 117-124 and 93-99: a URL message arrives; handle_url calls
\* rate_limited, which returns False without a client, else calls rcli.get.
\* `up` says whether the store answers this call.
handle_url(j, u, up) ==
    /\ loop = 0
    /\ NextToArrive(j)
    /\ IF rcli = "None"
       THEN /\ gate' = [gate EXCEPT ![j] = "Admitted"]      \* line 96
            /\ pc' = [pc EXCEPT ![j] = "await_status"]      \* line 128
            /\ UNCHANGED <<loop, user_id, escaped>>
       ELSE IF ~up
       THEN /\ gate' = [gate EXCEPT ![j] = "Raised"]        \* rcli.get raises
            /\ pc' = [pc EXCEPT ![j] = "done"]
            /\ escaped' = [escaped EXCEPT ![j] = "store"]
            /\ UNCHANGED <<loop, user_id>>
       ELSE IF redis_get(BusyKey(u)) # "None"
       THEN /\ gate' = [gate EXCEPT ![j] = "Busy"]          \* line 99
            /\ pc' = [pc EXCEPT ![j] = "await_throttle"]    \* line 125
            /\ UNCHANGED <<loop, user_id, escaped>>
       ELSE /\ pc' = [pc EXCEPT ![j] = "rl_setex"]          \* line 100 is next
            /\ user_id' = [user_id EXCEPT ![j] = u]
            /\ loop' = KeepsLoop(j)
            /\ UNCHANGED <<gate, escaped>>
    /\ UNCHANGED <<config, store, status, tmpdir, dirs, history, callfail, elapsed>>

\* lines 100-101: rcli.setex, then return False; handle_url awaits the
\* status reply of line 128
rate_limited_setex(j, up) ==
    /\ pc[j] = "rl_setex"
    /\ loop \in {0, j}
    /\ loop' = 0
    /\ user_id' = [user_id EXCEPT ![j] = 0]
    /\ IF up
       THEN /\ store' = redis_setex(BusyKey(user_id[j]))
            /\ elapsed' = [elapsed EXCEPT ![user_id[j]] = 0]
            /\ gate' = [gate EXCEPT ![j] = "Admitted"]
            /\ pc' = [pc EXCEPT ![j] = "await_status"]
            /\ escaped' = escaped
       ELSE /\ gate' = [gate EXCEPT ![j] = "Raised"]        \* rcli.setex raises
            /\ pc' = [pc EXCEPT ![j] = "done"]
            /\ escaped' = [escaped EXCEPT ![j] = "store"]
            /\ UNCHANGED <<store, elapsed>>
    /\ UNCHANGED <<config, status, tmpdir, dirs, history, callfail>>

\* lines 125-126 resume: the throttling notice was sent or raised; return
AfterNoticeFallsThrough == "await_status"
AfterNotice == "done"

throttle_reply(j, r) ==
    /\ loop = 0
    /\ pc[j] = "await_throttle"
    /\ callfail' = Failed(j, r)
    /\ notices' = [notices EXCEPT ![j] = IF r = "ok" THEN @ + 1 ELSE @]
    /\ escaped' = [escaped EXCEPT ![j] = IF r = "ok" THEN "none" ELSE "transport"]
    /\ pc' = [pc EXCEPT ![j] = IF r = "ok" THEN AfterNotice ELSE "done"]
    /\ UNCHANGED <<config, store, loop, user_id, status, tmpdir, dirs, gate,
                   verdict, stsize, extracts, engine, sends, delivered, shown, elapsed>>

\* ---------------------------------------------------------------- teardown
\* lines 176-181: the finally clause runs on every exit of the try statement,
\* `raising` or not; rmtree(ignore_errors=True) removes the tree
rmtree_unless_raising(d, name, raising) == IF raising THEN d ELSE d \ {name}
rmtree_finally(d, name, raising) == d \ {name}

\* leaving the try statement of lines 131-181 and, with it, the handler
Leave(j, raising) ==
    /\ dirs' = rmtree_finally(dirs, tmpdir[j], raising)
    /\ tmpdir' = [tmpdir EXCEPT ![j] = 0]
    /\ escaped' = [escaped EXCEPT ![j] = IF raising THEN "transport" ELSE "none"]
    /\ pc' = [pc EXCEPT ![j] = "done"]

\* tempfile.mkdtemp(prefix="ytdl_", dir=...): a name no existing entry has
\* (names are interchangeable: the least free one stands for the random one)
mkdtemp_fixed(d) == 1
mkdtemp(d) == CHOOSE n \in Names : n \notin d /\ \A m \in Names \ d : n <= m

\* ------------------------------------------------- handle_url, lines 128-135
\* line 128 resumes with the status message posted (or the reply raised);
\* line 130 makes the workspace under a name no existing entry has (or
\* raises OSError); line 135 enters ydl.extract_info, a plain call
status_reply(j, r, mk) ==
    /\ loop = 0
    /\ pc[j] = "await_status"
    /\ IF r # "ok"
       THEN /\ callfail' = Failed(j, r)
            /\ escaped' = [escaped EXCEPT ![j] = "transport"]
            /\ pc' = [pc EXCEPT ![j] = "done"]
            /\ UNCHANGED <<status, tmpdir, dirs, loop, extracts>>
       ELSE IF mk # "ok"
       THEN /\ status' = Edited(j, InProgress)
            /\ callfail' = Failed(j, mk)
            /\ escaped' = [escaped EXCEPT ![j] = "oserror"]
            /\ pc' = [pc EXCEPT ![j] = "done"]
            /\ UNCHANGED <<tmpdir, dirs, loop, extracts>>
       ELSE /\ status' = Edited(j, InProgress)
            /\ tmpdir' = [tmpdir EXCEPT ![j] = mkdtemp(dirs)]
            /\ dirs' = dirs \cup {mkdtemp(dirs)}
            /\ extracts' = [extracts EXCEPT ![j] = @ + 1]
            /\ pc' = [pc EXCEPT ![j] = "downloading"]
            /\ loop' = j
            /\ UNCHANGED <<callfail, escaped>>
    /\ UNCHANGED <<config, store, user_id, gate, verdict, stsize, engine, sends, delivered,
                   notices, shown, elapsed>>

\* ------------------------------------------------- handle_url, lines 135-159
\* ydl.extract_info returns or raises; then, without an await in between,
\* pick_file_from_dir, the size comparison and the choice of what to await
extract_done(j, e, sz) ==
    /\ pc[j] = "downloading"
    /\ loop = j
    /\ loop' = 0
    /\ engine' = [engine EXCEPT ![j] = e]
    /\ IF e = "download_error"
       THEN /\ pc' = [pc EXCEPT ![j] = "await_edit_dlfail"]        \* line 167
            /\ UNCHANGED <<verdict, stsize, sends>>
       ELSE IF e # "file"
       THEN /\ pc' = [pc EXCEPT ![j] = "await_edit_apology"]       \* line 173
            /\ UNCHANGED <<verdict, stsize, sends>>
       ELSE /\ stsize' = [stsize EXCEPT ![j] = sz]
            /\ verdict' = [verdict EXCEPT ![j] = SizeGate(sz, MAX_FILE_MB)]
            /\ IF SizeGate(sz, MAX_FILE_MB) = "Reject"
               THEN /\ pc' = [pc EXCEPT ![j] = "await_edit_reject"] \* line 143
                    /\ sends' = sends
               ELSE /\ pc' = [pc EXCEPT ![j] = "await_send"]   \* lines 154-159
                    /\ sends' = [sends EXCEPT ![j] = @ + 1]
    /\ UNCHANGED <<config, store, user_id, status, tmpdir, dirs, gate, extracts,
                   delivered, notices, shown, callfail, escaped, elapsed>>

\* (the same without the return of line 147: the handler goes on to the send)
edit_reject_no_return(j, r) ==
    /\ loop = 0
    /\ pc[j] = "await_edit_reject"
    /\ callfail' = Failed(j, r)
    /\ status' = IF r = "ok" THEN Edited(j, TooLargeText(stsize[j], MAX_FILE_MB))
                 ELSE status
    /\ shown' = IF r = "ok" THEN Shown(j, TooLargeText(stsize[j], MAX_FILE_MB))
                ELSE shown
    /\ sends' = [sends EXCEPT ![j] = IF r = "ok" THEN @ + 1 ELSE @]
    /\ pc' = [pc EXCEPT ![j] = IF r = "ok" THEN "await_send" ELSE "await_edit_apology"]
    /\ UNCHANGED <<config, store, loop, user_id, tmpdir, dirs, gate, verdict,
                   stsize, extracts, engine, delivered, notices, escaped, elapsed>>

\* lines 143-147 resume: the edit took effect and the handler returns through
\* finally, or the edit raised, which `except Exception` of line 170 catches
edit_reject(j, r) ==
    /\ loop = 0
    /\ pc[j] = "await_edit_reject"
    /\ callfail' = Failed(j, r)
    /\ IF r = "ok"
       THEN /\ status' = Edited(j, TooLargeText(stsize[j], MAX_FILE_MB))
            /\ shown' = Shown(j, TooLargeText(stsize[j], MAX_FILE_MB))
            /\ Leave(j, FALSE)
       ELSE /\ pc' = [pc EXCEPT ![j] = "await_edit_apology"]
            /\ UNCHANGED <<status, shown, tmpdir, dirs, escaped>>
    /\ UNCHANGED <<config, store, loop, user_id, gate, verdict, stsize,
                   extracts, engine, sends, delivered, notices, elapsed>>

\* line 154-159 resuming, had the handler tried the send again after a failure
send_reply_retry(j, r) ==
    /\ loop = 0
    /\ pc[j] = "await_send"
    /\ callfail' = Failed(j, r)
    /\ delivered' = [delivered EXCEPT ![j] = (r = "ok")]
    /\ pc' = [pc EXCEPT ![j] = IF r = "ok" THEN "await_delete" ELSE "await_send"]
    /\ sends' = [sends EXCEPT ![j] = IF r = "ok" THEN @ ELSE @ + 1]
    /\ UNCHANGED <<config, store, loop, user_id, status, tmpdir, dirs, gate,
                   verdict, stsize, extracts, engine, notices, shown, escaped,
                   elapsed>>

\* lines 154-160 resume: the file-send returned and status.delete() is
\* awaited, or it raised into `except Exception` of line 161
send_reply(j, r) ==
    /\ loop = 0
    /\ pc[j] = "await_send"
    /\ callfail' = Failed(j, r)
    /\ delivered' = [delivered EXCEPT ![j] = (r = "ok")]
    /\ pc' = [pc EXCEPT ![j] =
                IF r = "ok" THEN "await_delete" ELSE "await_edit_sendfail"]
    /\ UNCHANGED <<config, store, loop, user_id, status, tmpdir, dirs, gate,
                   verdict, stsize, extracts, engine, sends, notices, shown, escaped,
                   elapsed>>

\* line 160 resumes: the status message is gone and the try statement ends,
\* or the delete raised into `except Exception` of line 161
delete_reply(j, r) ==
    /\ loop = 0
    /\ pc[j] = "await_delete"
    /\ callfail' = Failed(j, r)
    /\ IF r = "ok"
       THEN /\ status' = Edited(j, Deleted)
            /\ Leave(j, FALSE)
       ELSE /\ pc' = [pc EXCEPT ![j] = "await_edit_sendfail"]
            /\ UNCHANGED <<status, tmpdir, dirs, escaped>>
    /\ UNCHANGED <<config, store, loop, user_id, gate, history, elapsed>>

\* line 163 resumes: the edit took effect and the try statement ends, or it
\* raised inside the handler of line 161, which line 170 catches
edit_sendfail(j, r) ==
    /\ loop = 0
    /\ pc[j] = "await_edit_sendfail"
    /\ callfail' = Failed(j, r)
    /\ IF r = "ok"
       THEN /\ status' = Edited(j, SendFailedText)
            /\ shown' = Shown(j, SendFailedText)
            /\ Leave(j, FALSE)
       ELSE /\ pc' = [pc EXCEPT ![j] = "await_edit_apology"]
            /\ UNCHANGED <<status, shown, tmpdir, dirs, escaped>>
    /\ UNCHANGED <<config, store, loop, user_id, gate, verdict, stsize,
                   extracts, engine, sends, delivered, notices, elapsed>>

\* lines 166-169 and 172-175 resume: the edit took effect, or raised
\* MessageNotModified (swallowed), or raised anything else, which leaves the
\* handler after finally
EditInHandler(j, r, text) ==
    /\ loop = 0
    /\ callfail' = Failed(j, r)
    /\ status' = IF r = "ok" THEN Edited(j, text) ELSE status
    /\ shown' = IF r = "ok" THEN Shown(j, text) ELSE shown
    /\ Leave(j, r = "error")
    /\ UNCHANGED <<config, store, loop, user_id, gate, verdict, stsize,
                   extracts, engine, sends, delivered, notices, elapsed>>

edit_dlfail(j, r) ==
    /\ pc[j] = "await_edit_dlfail"
    /\ EditInHandler(j, r, DlFailedText)

edit_apology(j, r) ==
    /\ pc[j] = "await_edit_apology"
    /\ EditInHandler(j, r, ApologyText)

\* ------------------------------------------------------------ specification
Next ==
    \/ Tick(COOLDOWN)
    \/ \E j \in Tasks : cmd_help(j)
    \/ \E j \in Tasks, r \in CallResults : cmd_help_reply(j, r)
    \/ \E j \in Tasks, u \in Users, up \in BOOLEAN : handle_url(j, u, up)
    \/ \E j \in Tasks, up \in BOOLEAN : rate_limited_setex(j, up)
    \/ \E j \in Tasks, r \in CallResults : throttle_reply(j, r)
    \/ \E j \in Tasks, r \in CallResults, mk \in CallResults : status_reply(j, r, mk)
    \/ \E j \in Tasks, e \in EngineResults, sz \in ArtifactSizes : extract_done(j, e, sz)
    \/ \E j \in Tasks, r \in EditResults : edit_reject(j, r)
    \/ \E j \in Tasks, r \in CallResults : send_reply(j, r)
    \/ \E j \in Tasks, r \in CallResults : delete_reply(j, r)
    \/ \E j \in Tasks, r \in EditResults : edit_sendfail(j, r)
    \/ \E j \in Tasks, r \in EditResults : edit_dlfail(j, r)
    \/ \E j \in Tasks, r \in EditResults : edit_apology(j, r)

Spec == Init /\ [][Next]_vars

\* ------------------------------------------- the admission gate on its own
\* handle_url up to the await that follows rate_limited, under a clock that
\* advances in steps of TickStep
GateNext ==
    \/ Tick(TickStep)
    \/ \E j \in Tasks, u \in Users, up \in BOOLEAN : handle_url(j, u, up)
    \/ \E j \in Tasks, up \in BOOLEAN : rate_limited_setex(j, up)
    \/ \E j \in Tasks, r \in CallResults : throttle_reply(j, r)

GateSpec == Init /\ [][GateNext]_vars

\* ------------------------------------------------ the size gate on its own
\* lines 141-142 applied to every size in Sizes under every limit in LimitsMB
SizeInit ==
    /\ Init
    /\ rcli = "None"

SizeArgs == [size : Sizes, limit : LimitsMB]

size_gate(a) ==
    /\ ret = <<>>
    /\ arg' = a
    /\ ret' = <<SizeGate(a.size, a.limit)>>
    /\ UNCHANGED <<rcli, store, loop, pc, user_id, status, tmpdir, dirs, gate,
                   history, callfail, escaped, elapsed>>

size_gate_return ==
    /\ ret # <<>>
    /\ arg' = <<>>
    /\ ret' = <<>>
    /\ UNCHANGED <<rcli, store, loop, pc, user_id, status, tmpdir, dirs, gate,
                   history, callfail, escaped, elapsed>>

SizeNext == (\E a \in SizeArgs : size_gate(a)) \/ size_gate_return

SizeSpec == SizeInit /\ [][SizeNext]_vars

\* ------------------------------------- the delivery choice, lines 149-159
\* Text is a sequence of one-character strings.  The variables of the
\* handlers stay as Init leaves them in the specifications of pure functions.
pipeline == <<rcli, store, loop, pc, user_id, status, tmpdir, dirs, gate,
              history, callfail, escaped, elapsed>>

LowerCase == <<"a", "b", "c", "e", "f", "g", "k", "l", "m", "o", "p", "r",
               "t", "v", "w", "x">>
UpperCase == <<"A", "B", "C", "E", "F", "G", "K", "L", "M", "O", "P", "R",
               "T", "V", "W", "X">>

\* str.lower() and str.upper() on one character: digits and dots stay
LowerChar(c) ==
    IF \E i \in DOMAIN UpperCase : UpperCase[i] = c
    THEN LowerCase[CHOOSE i \in DOMAIN UpperCase : UpperCase[i] = c]
    ELSE c
UpperChar(c) ==
    IF \E i \in DOMAIN LowerCase : LowerCase[i] = c
    THEN UpperCase[CHOOSE i \in DOMAIN LowerCase : LowerCase[i] = c]
    ELSE c

lower(s) == [i \in 1..Len(s) |-> LowerChar(s[i])]

\* str.rfind on one character, counted from 1; 0 when the character is absent
rfind(s, c) ==
    IF \E i \in 1..Len(s) : s[i] = c
    THEN CHOOSE i \in 1..Len(s) : s[i] = c /\ \A k \in (i + 1)..Len(s) : s[k] # c
    ELSE 0

\* pathlib's PurePath.suffix of a final path component: from the last dot on,
\* unless that dot is the first or the last character of the name
suffix(name) ==
    LET p == rfind(name, ".")
    IN  IF 1 < p /\ p < Len(name) THEN SubSeq(name, p, Len(name)) ELSE <<>>

RECURSIVE lstrip(_, _)
lstrip(s, c) == IF s # <<>> /\ Head(s) = c THEN lstrip(Tail(s), c) ELSE s

VIDEO_EXTS == {<<"m", "p", "4">>, <<"m", "k", "v">>, <<"w", "e", "b", "m">>,
               <<"m", "o", "v">>}
AUDIO_EXTS == {<<"m", "p", "3">>, <<"m", "4", "a">>, <<"a", "a", "c">>,
               <<"f", "l", "a", "c">>, <<"w", "a", "v">>, <<"o", "g", "g">>}

\* line 150 without .lower()
send_kind_case_sensitive(name) ==
    LET ext == lstrip(suffix(name), ".")
    IN  IF ext \in VIDEO_EXTS THEN "reply_video"
        ELSE IF ext \in AUDIO_EXTS THEN "reply_audio"
        ELSE "reply_document"

\* lines 150 and 154-159: the send operation chosen for the artifact's name
send_kind(name) ==
    LET ext == lstrip(lower(suffix(name)), ".")
    IN  IF ext \in VIDEO_EXTS THEN "reply_video"
        ELSE IF ext \in AUDIO_EXTS THEN "reply_audio"
        ELSE "reply_document"

\* File names given to the choice: a stem of letters and dots, then nothing,
\* or an extension in any mix of cases with or without its dot.
OTHER_EXTS == {<<"t", "x", "t">>, <<"m", "p">>, <<"p", "a", "r", "t">>}
Cased(e) ==
    {[i \in 1..Len(e) |-> IF i \in m THEN UpperChar(e[i]) ELSE e[i]] :
        m \in SUBSET (1..Len(e))}
Stems == UNION {[1..n -> {"a", "."}] : n \in 0..MaxStemLen}
Endings ==
    {<<>>} \cup UNION {{c, <<".">> \o c} :
                          c \in UNION {Cased(e) : e \in VIDEO_EXTS \cup AUDIO_EXTS
                                                          \cup OTHER_EXTS}}
FileNames == {st \o en : st \in Stems, en \in Endings}

send_kind_call(name) ==
    /\ ret = <<>>
    /\ arg' = name
    /\ ret' = <<send_kind(name)>>
    /\ UNCHANGED pipeline

send_kind_return ==
    /\ ret # <<>>
    /\ arg' = <<>>
    /\ ret' = <<>>
    /\ UNCHANGED pipeline

KindNext == (\E name \in FileNames : send_kind_call(name)) \/ send_kind_return

KindSpec == SizeInit /\ [][KindNext]_vars

\* ------------------------------------------------- sanitize, lines 64-67
\* The characters of the inputs: a word character, the underscore (a word
\* character too), a blank, the two punctuation marks the pattern keeps, and
\* one it removes.  The letters of the fallback label are word characters.
WordChars == {"a", "f", "i", "l", "e", "_"}
SpaceChars == {" "}
SanChars == {"a", "_", " ", ".", "-", "!"}
FILE == <<"f", "i", "l", "e">>

\* the complement of the class [^\w\s.-]
Kept(c) == c \in WordChars \cup SpaceChars \cup {".", "-"}

\* re.sub(r"[^\w\s.-]", "", text)
re_sub(text) == SelectSeq(text, Kept)

\* str.strip(): the blanks at both ends go
RECURSIVE rstrip(_)
rstrip(s) ==
    IF s # <<>> /\ s[Len(s)] \in SpaceChars
    THEN rstrip(SubSeq(s, 1, Len(s) - 1))
    ELSE s
RECURSIVE lstrip_blank(_)
lstrip_blank(s) ==
    IF s # <<>> /\ Head(s) \in SpaceChars THEN lstrip_blank(Tail(s)) ELSE s
strip(s) == lstrip_blank(rstrip(s))

\* text[:n]
Slice(s, n) == SubSeq(s, 1, IF Len(s) < n THEN Len(s) ELSE n)

\* line 67 without the fallback
sanitize_no_fallback(text) == Slice(strip(re_sub(text)), TRUNC)

sanitize(text) ==
    LET t == strip(re_sub(text))
    IN  IF t # <<>> THEN Slice(t, TRUNC) ELSE FILE

\* Inputs: a run of word characters that ends before, at or after the
\* truncation bound, followed by up to MaxTailLen free characters.
Pad(n) == [i \in 1..n |-> "a"]
PadLens == {0, TRUNC - 2, TRUNC - 1, TRUNC}
Tails == UNION {[1..n -> SanChars] : n \in 0..MaxTailLen}
Texts == {Pad(n) \o t : n \in PadLens, t \in Tails}

sanitize_call(text) ==
    /\ ret = <<>>
    /\ arg' = text
    /\ ret' = <<sanitize(text)>>
    /\ UNCHANGED pipeline

sanitize_return ==
    /\ ret # <<>>
    /\ arg' = <<>>
    /\ ret' = <<>>
    /\ UNCHANGED pipeline

SanitizeNext == (\E text \in Texts : sanitize_call(text)) \/ sanitize_return

SanitizeSpec == SizeInit /\ [][SanitizeNext]_vars

\* --------------------------------------- pick_file_from_dir, lines 85-91
\* A directory entry is its name and whether it is a regular file.  A
\* workspace is a set of entries with distinct names; d.iterdir() yields them
\* in an order the file system chooses.
PART == <<".", "p", "a", "r", "t">>
EntryNames == {<<"a">>, <<"b">>, <<"c">>, <<"a">> \o PART, Tail(PART)}
Entries == [name : EntryNames, is_file : BOOLEAN]
Workspaces ==
    {d \in SUBSET Entries :
        /\ Cardinality(d) <= MaxEntries
        /\ \A p, q \in d : p.name = q.name => p = q}
iterdir(d) ==
    {o \in [1..Cardinality(d) -> d] :
        \A i, k \in 1..Cardinality(d) : i # k => o[i] # o[k]}

\* str.endswith
endswith(s, suf) ==
    Len(s) >= Len(suf) /\ SubSeq(s, Len(s) - Len(suf) + 1, Len(s)) = suf

\* what the function returns for None
None == [name |-> <<>>, is_file |-> FALSE]

Eligible(p) == p.is_file /\ ~endswith(p.name, PART)

\* the loop of lines 87-90 over one listing: the first eligible entry
pick_file_from_dir(listing) ==
    IF \E i \in 1..Len(listing) : Eligible(listing[i])
    THEN listing[CHOOSE i \in 1..Len(listing) :
                    /\ Eligible(listing[i])
                    /\ \A k \in 1..(i - 1) : ~Eligible(listing[k])]
    ELSE None

pick_call(d, listing) ==
    /\ ret = <<>>
    /\ arg' = d
    /\ ret' = <<pick_file_from_dir(listing)>>
    /\ UNCHANGED pipeline

pick_return ==
    /\ ret # <<>>
    /\ arg' = <<>>
    /\ ret' = <<>>
    /\ UNCHANGED pipeline

PickNext ==
    \/ \E d \in Workspaces : \E listing \in iterdir(d) : pick_call(d, listing)
    \/ pick_return

PickSpec == SizeInit /\ [][PickNext]_vars

\* ================================================================== claims
UrlTasks == {j \in Tasks : gate[j] # "none"}      \* tasks running handle_url
Finishes(j) == pc[j] # "done" /\ pc'[j] = "done"

\* C1: whenever a handler that made a workspace finishes, on any path (end of
\* the try body, the return of line 147, or an exception raised inside an
\* except clause), the directory it made does not exist after that step.
C1_WorkspaceGone ==
    [][\A j \in Tasks : (Finishes(j) /\ tmpdir[j] # 0) => tmpdir[j] \notin dirs']_vars

\* a job that ran the engine finished with the edit inside its except clause
\* raising, and no directory is left
C1_Witness ==
    \E j \in Tasks : /\ pc[j] = "done"
                     /\ extracts[j] = 1
                     /\ escaped[j] = "transport"
                     /\ dirs = {}

C3_NothingEscapes ==
    \A j \in UrlTasks : escaped[j] \notin {"store", "transport"}

\* C4: while a job is inside the extraction call the event loop is free:
\* the handler of the next inbound event can start.
C4_LoopFreeWhileDownloading ==
    \A j \in Tasks :
        pc[j] = "downloading" =>
            \A k \in Tasks : NextToArrive(k) => ENABLED cmd_help(k)

\* C5: with the store answering, an admission attempt by user u is turned
\* away as Busy exactly when u was admitted less than COOLDOWN seconds ago,
\* whatever other users did; otherwise it goes on to set the key and is
\* admitted.
C5_CoolDown ==
    [][\A j \in Tasks :
          /\ \A u \in Users :
                (rcli = "Client" /\ handle_url(j, u, TRUE)) =>
                    /\ gate'[j] = "Busy" <=> elapsed[u] < COOLDOWN
                    /\ pc'[j] = "rl_setex" <=> elapsed[u] >= COOLDOWN
          /\ rate_limited_setex(j, TRUE) =>
                /\ gate'[j] = "Admitted"
                /\ store'[user_id[j]] = COOLDOWN
      ]_vars

\* an attempt was turned away as Busy part-way through the window
C5_Witness ==
    \E j, k \in Tasks, u \in Users :
        /\ gate[j] = "Admitted"
        /\ gate[k] = "Busy" /\ pc[k] = "await_throttle"
        /\ elapsed[u] > 0 /\ elapsed[u] < COOLDOWN

\* C6 as stated: the check and the set are one step of the store: no
\* admission check is ever stopped between reading the key as absent and
\* setting it.
C6_OneAtomicStep ==
    \A j \in Tasks : ~(pc[j] = "rl_setex" /\ redis_get(BusyKey(user_id[j])) = "None")

\* C6 amended: the store is read (get) and then written (setex) in two steps
\* with no await between them, and of the admission checks of one user
\* running concurrently at most one is admitted: a check is admitted only
\* while no busy key of its user is alive, so never after another check that
\* overlapped it was.
C6_AtMostOneAdmitted ==
    [][\A j \in Tasks :
          (rcli = "Client" /\ gate[j] # "Admitted" /\ gate'[j] = "Admitted") =>
              /\ redis_get(BusyKey(user_id[j])) = "None"
              /\ elapsed[user_id[j]] = COOLDOWN
      ]_vars

\* two checks of one user: the first admitted, the second, run at once, Busy
C6_Witness ==
    \E j, k \in Tasks, u \in Users :
        /\ gate[j] = "Admitted"
        /\ gate[k] = "Busy"
        /\ elapsed[u] = 0
        /\ \A v \in Users \ {u} : elapsed[v] = COOLDOWN

\* C7: rate_limited never raises: a store that does not answer admits.
C7_FailOpen ==
    \A j \in Tasks : gate[j] # "Raised"

\* C8: a job turned away as Busy posts no status message, makes no
\* workspace, calls neither the engine nor a file-send, and ends after the
\* throttling notice.
C8_BusyOnlyNotice ==
    \A j \in Tasks :
        gate[j] = "Busy" =>
            /\ pc[j] \in {"await_throttle", "done"}
            /\ status[j] = NoStatus
            /\ tmpdir[j] = 0
            /\ extracts[j] = 0
            /\ sends[j] = 0
            /\ ~delivered[j]
            /\ (pc[j] = "done" /\ escaped[j] = "none") => notices[j] = 1

\* a Busy job that ended with its notice delivered
C8_Witness ==
    \E j \in Tasks : gate[j] = "Busy" /\ pc[j] = "done" /\ notices[j] = 1

\* C9: the size gate passes a size exactly when it is at most the limit in
\* bytes, limit_mb * 1024 * 1024.
C9_SizeGate ==
    ret # <<>> => (ret[1] = "Pass" <=> arg.size <= arg.limit * MB)

\* a size of exactly the limit passed
C9_Witness ==
    /\ ret = <<"Pass">>
    /\ arg.limit > 0
    /\ arg.size = arg.limit * MB

\* C10: a file-send is called only after the engine ran and the size gate
\* passed; a finished job whose artifact the gate rejected shows the size
\* and the limit and called no file-send.
C10_SendOnlyAfterPass ==
    \A j \in Tasks :
        /\ sends[j] > 0 => (extracts[j] > 0 /\ verdict[j] = "Pass")
        /\ (pc[j] = "done" /\ verdict[j] = "Reject") =>
              /\ status[j] = TooLargeText(stsize[j], MAX_FILE_MB)
              /\ sends[j] = 0

\* C11: a finished job whose extraction failed with a download error or left
\* no output file, and none of whose transport calls raised, shows the
\* download-failed notice, and neither the size check nor a file-send ran.
C11_DownloadFailedNotice ==
    \A j \in Tasks :
        (pc[j] = "done" /\ engine[j] \in {"download_error", "no_file"}
                        /\ ~callfail[j]) =>
            /\ status[j] = DlFailedText
            /\ verdict[j] = "none"
            /\ sends[j] = 0

\* C12: the send-failure text is shown only on a job whose file-send failed:
\* a job whose file was delivered never shows it, whatever the removal of the
\* status message did.
C12_SendFailureOnlyAfterFailedSend ==
    \A j \in Tasks : delivered[j] => status[j] # SendFailedText

\* C13: an edit of the status message that raises MessageNotModified is
\* swallowed at every edit point: the handler ends there as it would after a
\* successful edit, with no further status edit and nothing propagating.
C13_NotModifiedSwallowed ==
    [][\A j \in Tasks :
          (\/ edit_reject(j, "not_modified")
           \/ edit_sendfail(j, "not_modified")
           \/ edit_dlfail(j, "not_modified")
           \/ edit_apology(j, "not_modified")) =>
              pc'[j] = "done" /\ escaped'[j] = "none"]_vars

\* C14: no job invokes the extraction engine more than once or attempts the
\* file-send more than once.
C14_NoRetries ==
    \A j \in Tasks : extracts[j] <= 1 /\ sends[j] <= 1

\* a job whose only extraction failed, and one whose only send failed, have
\* both finished
C14_Witness ==
    /\ \E j \in Tasks : pc[j] = "done" /\ extracts[j] = 1
                                       /\ engine[j] = "download_error"
    /\ \E j \in Tasks : pc[j] = "done" /\ sends[j] = 1 /\ ~delivered[j]

\* C15: the send operation is chosen by the artifact's extension whatever its
\* letter case: video exactly for mp4, mkv, webm, mov, audio exactly for mp3,
\* m4a, aac, flac, wav, ogg, and the document operation for every other name,
\* the names without extension included; one operation is chosen, never two.
HasExtension(name, e) ==
    /\ Len(name) > Len(e) + 1
    /\ name[Len(name) - Len(e)] = "."
    /\ \A i \in 1..Len(e) : LowerChar(name[Len(name) - Len(e) + i]) = e[i]
C15_Classification ==
    ret # <<>> =>
        /\ ret[1] \in {"reply_video", "reply_audio", "reply_document"}
        /\ ret[1] = "reply_video" <=> \E e \in VIDEO_EXTS : HasExtension(arg, e)
        /\ ret[1] = "reply_audio" <=> \E e \in AUDIO_EXTS : HasExtension(arg, e)

\* an upper-case video extension was classified
C15_Witness == arg = <<"a", ".", "M", "P", "4">> /\ ret = <<"reply_video">>

\* C16: sanitize is idempotent: sanitizing its own result gives that result
\* again, also when the stripped text is cut at the truncation bound.
C16_Idempotent == ret # <<>> => sanitize(ret[1]) = ret[1]

\* C17 as stated: an input with no word character (empty, blanks only,
\* punctuation only, dots and hyphens included) gives the fallback label, and
\* no result is longer than the truncation bound.
C17_FallbackForAllPunctuation ==
    ret # <<>> =>
        /\ Len(ret[1]) <= TRUNC
        /\ (\A i \in 1..Len(arg) : arg[i] \notin WordChars \ {"_"}) => ret[1] = FILE

\* C17 amended: an input made only of blanks and of punctuation other than
\* dot, hyphen and underscore (the empty input included) gives the fallback
\* label, and no result is longer than the truncation bound.
C17_FallbackForRemovedPunctuation ==
    ret # <<>> =>
        /\ Len(ret[1]) <= TRUNC
        /\ (\A i \in 1..Len(arg) : arg[i] \in SpaceChars \cup {"!"}) => ret[1] = FILE

\* a non-empty input of blanks and removed punctuation gave the label
C17_Witness == arg = <<" ", "!", " ">> /\ ret = <<FILE>>

\* C18: at every moment the workspaces of the jobs that have one are named
\* apart, and the workspace of every job that has not finished still exists:
\* no other job's teardown removed it.
C18_WorkspacesApart ==
    /\ \A j, k \in Tasks :
          (j # k /\ tmpdir[j] # 0 /\ tmpdir[k] # 0) => tmpdir[j] # tmpdir[k]
    /\ \A j \in Tasks : tmpdir[j] # 0 => tmpdir[j] \in dirs

\* job k made its workspace while another one existed, job j has torn its own
\* down since, and the workspace of k is the one left
C18_Witness ==
    \E j, k \in Tasks :
        /\ j # k
        /\ pc[j] = "done" /\ extracts[j] = 1
        /\ tmpdir[k] # 0 /\ tmpdir[k] # mkdtemp({})
        /\ dirs = {tmpdir[k]}

\* C19: pick_file_from_dir returns no partial file and no entry that is not a
\* regular file; it returns an entry of the workspace when a non-partial
\* regular file is there and None otherwise; and the same workspace contents
\* give the same entry whatever the listing.
C19_PickDeterministic ==
    ret # <<>> =>
        /\ ret[1] # None => ret[1] \in arg /\ Eligible(ret[1])
        /\ ret[1] = None <=> ~\E p \in arg : Eligible(p)
        /\ \A listing \in iterdir(arg) : pick_file_from_dir(listing) = ret[1]

====
